---- MODULE Spec2Model ----
(***************************************************************************)
(* Model of frbpoppy's survey-detection pipeline                           *)
(* (frbpoppy/survey_pop.py, SurveyPopulation.__init__) and of the galactic *)
(* propagation helpers it relies on (frbpoppy/galacticops.py).             *)
(*                                                                         *)
(* Numbers.  Per-source quantities are small naturals.  A uniform draw of  *)
(* np.random.random is the numerator k of k/UDen, k in 0..UDen-1, so that  *)
(* u <= 1/(1+z) is the exact comparison k*(1+z) <= UDen.  Distances of the *)
(* galactic helpers are whole kiloparsecs.                                 *)
(*                                                                         *)
(* Objects.  Frbs containers live in `heap`, addressed by reference, so    *)
(* that copying and aliasing are distinguishable.                          *)
(***************************************************************************)
EXTENDS Integers, Sequences, FiniteSets, TLC

\* ------------------------------------------------------------ bounds
MaxN == 2          \* largest input population
MaxSeed == 5       \* seeds 0..MaxSeed of the pseudorandom generator
UDen == 3          \* resolution of a uniform draw: u = k/UDen

\* ------------------------------------------------------ input domains
GlVals == {0, 1}           \* galactic longitude bins of a source
ZVals == {0, 2, 3}         \* redshifts
LumVals == {15, 30}        \* bolometric luminosities (arbitrary units)
SnrLimits == {5, 10}       \* survey.snr_limit
BeamKinds == {"float", "float64"}   \* numeric types survey.beam_size can have

VARIABLES
    heap,        \* reference -> Frbs container (its per-source arrays)
    cosmic_pop,  \* the input population: [frbs (a reference), time, vol_co_max]
    survey,      \* the survey: [snr_limit, beam_size, gl_max]
    opts,        \* [scat, scin, rate_limit], the keyword arguments
    self,        \* the SurveyPopulation under construction: [frbs, time, vol_co_max, rate]
    locals,      \* locals of __init__: region_mask, snr_mask, rate_mask, the draws
                 \* rate_u behind rate_mask and the frbs.snr the threshold read
    rng,         \* numpy's global generator: [seed, pos]
    pc,          \* next statement of __init__ ("start": not yet called)
    run,         \* which call of the session this is (1 or 2)
    first,       \* what the first call left, once the second has started
    orig,        \* history: the arrays of cosmic_pop.frbs as the session received them
    gal,         \* the galactic propagation helpers: their caller's data and calls
    rates_ret,   \* what a call of SurveyPopulation.rates() did, once made
    coords,      \* a direction on its way through lb_to_radec and radec_to_lb
    redshift,    \* a Redshift object and what its methods returned
    plotter      \* do_plot.plot: its default `files` list and the commands built

pipevars == <<heap, cosmic_pop, survey, opts, self, locals, rng, pc, run, first, orig>>
utilvars == <<coords, redshift, plotter>>
vars == <<heap, cosmic_pop, survey, opts, self, locals, rng, pc, run, first, orig, gal,
          rates_ret, coords, redshift, plotter>>

\* ------------------------------------------------------------ arrays
\* An attribute of Frbs is None or a numpy array.
None == [isarr |-> FALSE, v |-> <<>>]
Arr(s) == [isarr |-> TRUE, v |-> s]

CosmicRef == 1     \* cosmic_pop.frbs
CopyRef == 2       \* the object deepcopy allocates
Refs == {CosmicRef, CopyRef}

InputFields == {"gl", "z", "lum_bol", "w_int", "dm"}
SurveyFields == {"t_dm", "t_scat", "T_sky", "T_sys", "w_eff", "s_peak", "fluence", "snr"}
FrbsFields == InputFields \cup SurveyFields

\* Frbs(): every attribute None.
EmptyFrbs == [f \in FrbsFields |-> None]

RECURSIVE MaskSeq(_, _, _)
\* arr[mask] for a boolean mask: the elements of arr at the True positions, in order.
MaskSeq(arr, mask, i) ==
    IF i > Len(arr) THEN <<>>
    ELSE (IF mask[i] THEN <<arr[i]>> ELSE <<>>) \o MaskSeq(arr, mask, i + 1)

\* numpy raises IndexError when a boolean index has another length than the array.
CanApply(frbs, mask) ==
    \A f \in FrbsFields : frbs[f].isarr => Len(frbs[f].v) = Len(mask)

\* Frbs.apply(mask): every attribute that is an array is replaced by arr[mask].
apply(frbs, mask) ==
    [f \in FrbsFields |->
        IF frbs[f].isarr THEN Arr(MaskSeq(frbs[f].v, mask, 1)) ELSE frbs[f]]

\* np.size(mask) - np.count_nonzero(mask)
RECURSIVE count_nonzero(_)
count_nonzero(mask) ==
    IF mask = <<>> THEN 0
    ELSE (IF Head(mask) THEN 1 ELSE 0) + count_nonzero(Tail(mask))

size(mask) == Len(mask)

\* ------------------------------------------------------------ rates
\* A quotient the code computes in floating point: num/den, or what a division
\* by zero leaves in a numpy scalar.
Quot(n, d) == [kind |-> "num", num |-> n, den |-> d]
NaN == [kind |-> "nan", num |-> 0, den |-> 0]
Inf == [kind |-> "inf", num |-> 0, den |-> 0]

\* Rates(): all counts 0, scaling factors 1.
NewRates ==
    [det |-> 0, faint |-> 0, late |-> 0, out |-> 0,
     vol |-> Quot(0, 1), days |-> Quot(0, 1), f_area |-> Quot(1, 1), f_time |-> Quot(1, 1)]

\* Rates.tot()
tot(rate) == rate.det + rate.out + rate.faint + rate.late

\* ------------------------------------------------------------ random
\* The k-th output (k >= 1) of the generator seeded with `seed`: a fixed
\* function of the seed, with values in 0..UDen-1.
Stream(seed, k) ==
    ((seed \div (IF k % 2 = 1 THEN 1 ELSE UDen)) + ((k - 1) \div 2)) % UDen

\* Draws from a generator the seed does not control: every call of the
\* session sees another stream.
random_draws_unseeded(g, n) == [i \in 1..n |-> Stream(g.seed + run, g.pos + i)]

\* np.random.random(n) with the generator at position pos: n consecutive outputs.
random_draws(g, n) == [i \in 1..n |-> Stream(g.seed, g.pos + i)]

Advance(g, n) == [g EXCEPT !.pos = g.pos + n]

\* ------------------------------------------------- elementwise helpers
Range(n) == 1..n
Map2(a, b, Op(_, _)) == [i \in Range(Len(a)) |-> Op(a[i], b[i])]
Mul(x, y) == x * y
Add(x, y) == x + y

\* ------------------------------------------------------------ survey
\* The Survey Observation Model.  Each function returns one value per source
\* of the population it is given.
T_rec == 1         \* receiver temperature of the survey

\* survey.in_region(frbs): True where the source lies inside the sky coverage.
in_region(s, frbs) == [i \in Range(Len(frbs.gl.v)) |-> frbs.gl.v[i] <= s.gl_max]

\* survey.dm_smear(frbs): a deterministic function of the dispersion measure.
dm_smear(s, frbs) == [i \in Range(Len(frbs.dm.v)) |-> frbs.dm.v[i]]

\* survey.calc_scat(dm): one random scatter term per source (scatter_bhat).
calc_scat(dm, g) == random_draws(g, Len(dm))

\* survey.calc_Ts(frbs): sky temperature looked up by position; T_sys = T_rec + T_sky.
calc_T_sky(s, frbs) == [i \in Range(Len(frbs.gl.v)) |-> frbs.gl.v[i]]
calc_T_sys(s, T_sky) == [i \in Range(Len(T_sky)) |-> T_rec + T_sky[i]]

\* survey.calc_w_eff(frbs): intrinsic width, DM smear and (if set) scattering combined.
calc_w_eff(s, frbs) ==
    [i \in Range(Len(frbs.w_int.v)) |->
        frbs.w_int.v[i] + frbs.t_dm.v[i]
        + (IF frbs.t_scat.isarr THEN frbs.t_scat.v[i] ELSE 0)]

\* survey.calc_s_peak(frbs, f_low, f_high)
calc_s_peak(s, frbs) == [i \in Range(Len(frbs.lum_bol.v)) |-> frbs.lum_bol.v[i]]

\* survey.intensity_profile(n_gen): n_gen draws of the fractional beam
\* sensitivity, (k+1)/UDen in (0, 1].
intensity_profile(s, n_gen, g) == [i \in Range(n_gen) |-> random_draws(g, n_gen)[i] + 1]

\* s_peak * int_pro with int_pro in units of 1/UDen.
Attenuate(x, ip) == (x * ip) \div UDen

\* survey.calc_snr(frbs): the radiometer equation.
calc_snr(s, frbs) ==
    [i \in Range(Len(frbs.s_peak.v)) |->
        frbs.s_peak.v[i] \div (frbs.T_sys.v[i] * frbs.w_eff.v[i])]

\* survey.calc_scint(frbs): the SNR perturbed multiplicatively, one draw per source.
calc_scint(s, frbs, g) ==
    [i \in Range(Len(frbs.snr.v)) |->
        (frbs.snr.v[i] * (2 * random_draws(g, Len(frbs.snr.v))[i] + 1)) \div UDen]

\* ------------------------------------------------------ the pipeline
frbs == heap[self.frbs]            \* the local `frbs` of __init__ (line 42)
SetFrbs(new) == heap' = [heap EXCEPT ![self.frbs] = new]
SetAttr(f, seq) == SetFrbs([frbs EXCEPT ![f] = Arr(seq)])

\* Without the copy, self.frbs is the caller's own object.
deepcopy_alias(ref) == ref

\* deepcopy(cosmic_pop.frbs): a new object, equal to the original.
deepcopy(ref) == CopyRef

\* Counting the sources a mask keeps instead.
rejected_kept(mask) == count_nonzero(mask)

\* np.size(mask) - np.count_nonzero(mask): the sources a mask rejects.
rejected(mask) == size(mask) - count_nonzero(mask)

\* A strict comparison: a source exactly at the limit is dropped.
snr_mask_strict(snr, limit) == [i \in Range(Len(snr)) |-> snr[i] > limit]

\* The comparison turned round: the sources at or below the limit are kept.
snr_mask_reversed(snr, limit) == [i \in Range(Len(snr)) |-> snr[i] <= limit]

\* frbs.snr >= survey.snr_limit
snr_mask_of(snr, limit) == [i \in Range(Len(snr)) |-> snr[i] >= limit]

\* A strict comparison: a draw equal to 1/(1+z) rejects the source.
rate_mask_strict(u, z) == [i \in Range(Len(z)) |-> u[i] * (1 + z[i]) < UDen]

\* np.random.random(len(frbs.z)) <= 1/(1+frbs.z), with u = k/UDen
rate_mask_of(u, z) == [i \in Range(Len(z)) |-> u[i] * (1 + z[i]) <= UDen]

\* The statements of __init__ in program order, by the label of the next one.
Stages ==
    <<"construct", "region", "t_dm", "t_scat", "T_sys", "w_eff", "s_peak",
      "fluence", "snr", "scint", "threshold", "rate_limit", "det", "scaling", "done">>

StageNo(p) == CHOOSE k \in 1..Len(Stages) : Stages[k] = p

\* The rate-limit filter placed before the threshold filter.
After_rate_first(p) ==
    CASE p = "scint" -> "rate_limit"
      [] p = "rate_limit" -> "threshold"
      [] p = "threshold" -> "det"
      [] OTHER -> Stages[StageNo(p) + 1]

\* The statement after the one labelled p.
After(p) == Stages[StageNo(p) + 1]

\* Lines 30-42: set up the population, copy the input, start an empty rate record.
Construct ==
    /\ pc = "construct"
    /\ self' = [frbs |-> deepcopy(cosmic_pop.frbs), time |-> cosmic_pop.time,
                vol_co_max |-> cosmic_pop.vol_co_max, rate |-> NewRates]
    /\ heap' = [heap EXCEPT ![deepcopy(cosmic_pop.frbs)] = heap[cosmic_pop.frbs]]
    /\ pc' = After(pc)
    /\ UNCHANGED <<cosmic_pop, survey, opts, locals, rng, run, first, orig, gal, rates_ret, utilvars>>

\* Lines 44-47: region filter.
RegionFilter ==
    /\ pc = "region"
    /\ LET region_mask == in_region(survey, frbs) IN
        /\ locals' = [locals EXCEPT !.region_mask = region_mask]
        /\ IF CanApply(frbs, region_mask)
           THEN /\ SetFrbs(apply(frbs, region_mask))
                /\ self' = [self EXCEPT !.rate.out = rejected(region_mask)]
                /\ pc' = After(pc)
           ELSE /\ pc' = "failed"
                /\ UNCHANGED <<heap, self>>
    /\ UNCHANGED <<cosmic_pop, survey, opts, rng, run, first, orig, gal, rates_ret, utilvars>>

\* Line 50: frbs.t_dm = survey.dm_smear(frbs)
DmSmear ==
    /\ pc = "t_dm"
    /\ SetAttr("t_dm", dm_smear(survey, frbs))
    /\ pc' = After(pc)
    /\ UNCHANGED <<cosmic_pop, survey, opts, self, locals, rng, run, first, orig, gal, rates_ret, utilvars>>

\* Lines 53-54: if scat: frbs.t_scat = survey.calc_scat(frbs.dm)
Scat ==
    /\ pc = "t_scat"
    /\ IF opts.scat
       THEN /\ SetAttr("t_scat", calc_scat(frbs.dm.v, rng))
            /\ rng' = Advance(rng, Len(frbs.dm.v))
       ELSE UNCHANGED <<heap, rng>>
    /\ pc' = After(pc)
    /\ UNCHANGED <<cosmic_pop, survey, opts, self, locals, run, first, orig, gal, rates_ret, utilvars>>

\* Line 57: frbs.T_sky, frbs.T_sys = survey.calc_Ts(frbs)
CalcTs ==
    /\ pc = "T_sys"
    /\ LET T_sky == calc_T_sky(survey, frbs) IN
        SetFrbs([frbs EXCEPT !["T_sky"] = Arr(T_sky),
                             !["T_sys"] = Arr(calc_T_sys(survey, T_sky))])
    /\ pc' = After(pc)
    /\ UNCHANGED <<cosmic_pop, survey, opts, self, locals, rng, run, first, orig, gal, rates_ret, utilvars>>

\* Line 60: frbs.w_eff = survey.calc_w_eff(frbs)
CalcWEff ==
    /\ pc = "w_eff"
    /\ SetAttr("w_eff", calc_w_eff(survey, frbs))
    /\ pc' = After(pc)
    /\ UNCHANGED <<cosmic_pop, survey, opts, self, locals, rng, run, first, orig, gal, rates_ret, utilvars>>

\* Lines 63-69: peak flux density, attenuated in place by the beam response.
CalcSPeak ==
    /\ pc = "s_peak"
    /\ LET s_peak == calc_s_peak(survey, frbs)
           int_pro == intensity_profile(survey, Len(s_peak), rng)
       IN /\ SetAttr("s_peak", Map2(s_peak, int_pro, Attenuate))
          /\ rng' = Advance(rng, Len(s_peak))
    /\ pc' = After(pc)
    /\ UNCHANGED <<cosmic_pop, survey, opts, self, locals, run, first, orig, gal, rates_ret, utilvars>>

\* Line 72: frbs.fluence = frbs.s_peak * frbs.w_eff
CalcFluence ==
    /\ pc = "fluence"
    /\ SetAttr("fluence", Map2(frbs.s_peak.v, frbs.w_eff.v, Mul))
    /\ pc' = After(pc)
    /\ UNCHANGED <<cosmic_pop, survey, opts, self, locals, rng, run, first, orig, gal, rates_ret, utilvars>>

\* Line 75: frbs.snr = survey.calc_snr(frbs)
CalcSnr ==
    /\ pc = "snr"
    /\ SetAttr("snr", calc_snr(survey, frbs))
    /\ pc' = After(pc)
    /\ UNCHANGED <<cosmic_pop, survey, opts, self, locals, rng, run, first, orig, gal, rates_ret, utilvars>>

\* Lines 78-79: if scin: frbs.snr = survey.calc_scint(frbs)
Scint ==
    /\ pc = "scint"
    /\ IF opts.scin
       THEN /\ SetAttr("snr", calc_scint(survey, frbs, rng))
            /\ rng' = Advance(rng, Len(frbs.snr.v))
       ELSE UNCHANGED <<heap, rng>>
    /\ pc' = After(pc)
    /\ UNCHANGED <<cosmic_pop, survey, opts, self, locals, run, first, orig, gal, rates_ret, utilvars>>

\* The threshold mask applied to frbs.snr alone instead of through frbs.apply.
ThresholdFilter_snr_only ==
    /\ pc = "threshold"
    /\ LET snr_mask == snr_mask_of(frbs.snr.v, survey.snr_limit) IN
        /\ locals' = [locals EXCEPT !.snr_mask = snr_mask, !.snr_seen = frbs.snr.v]
        /\ SetAttr("snr", MaskSeq(frbs.snr.v, snr_mask, 1))
        /\ self' = [self EXCEPT !.rate.faint = rejected(snr_mask)]
        /\ pc' = After(pc)
    /\ UNCHANGED <<cosmic_pop, survey, opts, rng, run, first, orig, gal, rates_ret, utilvars>>

\* Lines 81-84: threshold filter.
ThresholdFilter ==
    /\ pc = "threshold"
    /\ LET snr_mask == snr_mask_of(frbs.snr.v, survey.snr_limit) IN
        /\ locals' = [locals EXCEPT !.snr_mask = snr_mask, !.snr_seen = frbs.snr.v]
        /\ IF CanApply(frbs, snr_mask)
           THEN /\ SetFrbs(apply(frbs, snr_mask))
                /\ self' = [self EXCEPT !.rate.faint = rejected(snr_mask)]
                /\ pc' = After(pc)
           ELSE /\ pc' = "failed"
                /\ UNCHANGED <<heap, self>>
    /\ UNCHANGED <<cosmic_pop, survey, opts, rng, run, first, orig, gal, rates_ret, utilvars>>

\* Lines 86-90: rate-limit filter, if rate_limit is True.
RateLimit ==
    /\ pc = "rate_limit"
    /\ IF opts.rate_limit
       THEN LET u == random_draws(rng, Len(frbs.z.v))
                rate_mask == rate_mask_of(u, frbs.z.v)
            IN /\ locals' = [locals EXCEPT !.rate_u = u, !.rate_mask = rate_mask]
               /\ rng' = Advance(rng, Len(frbs.z.v))
               /\ IF CanApply(frbs, rate_mask)
                  THEN /\ SetFrbs(apply(frbs, rate_mask))
                       /\ self' = [self EXCEPT !.rate.late = rejected(rate_mask)]
                       /\ pc' = After(pc)
                  ELSE /\ pc' = "failed"
                       /\ UNCHANGED <<heap, self>>
       ELSE /\ pc' = After(pc)
            /\ UNCHANGED <<heap, self, locals, rng>>
    /\ UNCHANGED <<cosmic_pop, survey, opts, run, first, orig, gal, rates_ret, utilvars>>

\* Line 92: self.rate.det = len(frbs.snr)
CountDet ==
    /\ pc = "det"
    /\ self' = [self EXCEPT !.rate.det = Len(frbs.snr.v)]
    /\ pc' = After(pc)
    /\ UNCHANGED <<heap, cosmic_pop, survey, opts, locals, rng, run, first, orig, gal, rates_ret, utilvars>>

\* Constants of lines 94-107.
AreaSky == 41253           \* 4*pi*(180/pi)**2, in square degrees (rounded)
DaySeconds == 86400
YearSeconds == 31557600    \* 365.25*86400

\* Lines 94-107: scaling factors.  inside*area_sky is a Python float; dividing
\* by it when it is 0.0 raises ZeroDivisionError if f_area is a Python float
\* and leaves nan or inf if f_area is a numpy float64.  Which of the two
\* survey.beam_size makes it is not decided by this file: both can happen.
Scaling ==
    /\ pc = "scaling"
    /\ \E beam_kind \in BeamKinds :
       LET f_area == survey.beam_size * tot(self.rate)
           inside == self.rate.det + self.rate.late + self.rate.faint
           f_time == Quot(DaySeconds, self.time)
           t == tot(self.rate)
           Save(fa) ==
               self' = [self EXCEPT
                   !.rate.days = Quot(self.time, DaySeconds),
                   !.rate.f_area = fa,
                   !.rate.f_time = f_time,
                   !.rate.vol = Quot(t * self.time, self.vol_co_max * YearSeconds)]
       IN IF inside * AreaSky # 0
          THEN /\ Save(Quot(f_area, inside * AreaSky))
               /\ pc' = After(pc)
          ELSE IF beam_kind = "float"
          THEN /\ pc' = "failed"
               /\ UNCHANGED self
          ELSE /\ Save(IF f_area = 0 THEN NaN ELSE Inf)
               /\ pc' = After(pc)
    /\ UNCHANGED <<heap, cosmic_pop, survey, opts, locals, rng, run, first, orig, gal, rates_ret, utilvars>>

\* --------------------------------------------------------- the session
\* A source as the upstream generator produces it.  Sources outside the survey
\* region are never looked at again, so one kind of them is enough; a source
\* at z = 0 always passes the rate limit, so one luminosity of it is enough.
SourceKinds ==
    [gl : {0}, z : ZVals \ {0}, lum_bol : LumVals]
    \cup {[gl |-> 0, z |-> 0, lum_bol |-> 15], [gl |-> 1, z |-> 0, lum_bol |-> 15]}

Populations == UNION {[1..n -> SourceKinds] : n \in 0..MaxN}

\* The Frbs container of a generated population: the input attributes are
\* arrays, the attributes a survey fills in are None.
CosmicFrbs(srcs) ==
    [f \in FrbsFields |->
        CASE f = "gl" -> Arr([i \in Range(Len(srcs)) |-> srcs[i].gl])
          [] f = "z" -> Arr([i \in Range(Len(srcs)) |-> srcs[i].z])
          [] f = "lum_bol" -> Arr([i \in Range(Len(srcs)) |-> srcs[i].lum_bol])
          [] f = "w_int" -> Arr([i \in Range(Len(srcs)) |-> 1])
          [] f = "dm" -> Arr([i \in Range(Len(srcs)) |-> 0])
          [] OTHER -> None]

NoLocals ==
    [region_mask |-> <<>>, snr_mask |-> <<>>, rate_mask |-> <<>>, rate_u |-> <<>>,
     snr_seen |-> <<>>]
NoSelf == [frbs |-> CopyRef, time |-> 0, vol_co_max |-> 0, rate |-> NewRates]
NoFirst == [rate |-> NewRates, frbs |-> EmptyFrbs, snr_limit |-> 0]

NoGal == [dm_calls |-> <<>>, smtau_calls |-> <<>>, dist |-> <<>>, scint_calls |-> <<>>]

\* rates() not yet called
NoRet == [called |-> FALSE]
NoCoords == [at |-> "none"]
NoRedshift == [made |-> FALSE]
NoPlotter == [default_files |-> <<>>, calls |-> <<>>]

\* np.random.seed(seed)
Seeded(seed) == [seed |-> seed, pos |-> 0]

Init ==
    /\ \E srcs \in Populations :
        /\ heap = [r \in Refs |-> IF r = CosmicRef THEN CosmicFrbs(srcs) ELSE EmptyFrbs]
        /\ orig = CosmicFrbs(srcs)
    /\ cosmic_pop = [frbs |-> CosmicRef, time |-> 4 * DaySeconds, vol_co_max |-> 1]
    /\ \E l \in SnrLimits :
        survey = [snr_limit |-> l, beam_size |-> 1, gl_max |-> 0]
    /\ opts \in [scat : BOOLEAN, scin : BOOLEAN, rate_limit : BOOLEAN]
    /\ \E seed \in 0..MaxSeed : rng = Seeded(seed)
    /\ self = NoSelf
    /\ locals = NoLocals
    /\ pc = "construct"
    /\ run = 1
    /\ first = NoFirst
    /\ gal = NoGal
    /\ rates_ret = NoRet
    /\ coords = NoCoords
    /\ redshift = NoRedshift
    /\ plotter = NoPlotter

\* The session surveys the same population a second time, with the same
\* options and the generator seeded as before, under a threshold that is the
\* same or higher.
Rerun ==
    /\ pc = "done"
    /\ run = 1
    /\ first' = [rate |-> self.rate, frbs |-> frbs, snr_limit |-> survey.snr_limit]
    /\ \E l \in SnrLimits :
        /\ l >= survey.snr_limit
        /\ survey' = [survey EXCEPT !.snr_limit = l]
    /\ rng' = Seeded(rng.seed)
    /\ locals' = NoLocals
    /\ self' = NoSelf
    /\ run' = 2
    /\ pc' = "construct"
    /\ UNCHANGED <<heap, cosmic_pop, opts, orig, gal, rates_ret, utilvars>>

Next ==
    \/ Construct
    \/ RegionFilter
    \/ DmSmear
    \/ Scat
    \/ CalcTs
    \/ CalcWEff
    \/ CalcSPeak
    \/ CalcFluence
    \/ CalcSnr
    \/ Scint
    \/ ThresholdFilter
    \/ RateLimit
    \/ CountDet
    \/ Scaling
    \/ Rerun

Spec == Init /\ [][Next]_vars

\* ============================================ survey_pop.py: rates()
RECURSIVE Gcd(_, _)
Gcd(a, b) == IF b = 0 THEN a ELSE Gcd(b, a % b)

\* A quotient in lowest terms.
Reduced(q) ==
    IF q.kind # "num" \/ q.den = 0 \/ q.num = 0 THEN q
    ELSE Quot(q.num \div Gcd(q.num, q.den), q.den \div Gcd(q.num, q.den))

\* The floating-point product of two quotients.
Times(p, q) ==
    IF p.kind = "nan" \/ q.kind = "nan" THEN NaN
    ELSE IF p.kind = "inf" \/ q.kind = "inf"
    THEN (IF (p.kind = "num" /\ p.num = 0) \/ (q.kind = "num" /\ q.num = 0) THEN NaN ELSE Inf)
    ELSE Reduced(Quot(Reduced(p).num * Reduced(q).num, Reduced(p).den * Reduced(q).den))

Counts == {"det", "faint", "late", "out"}

\* scale(rate, area=..., time=...): a new record, the counts of `rate`
\* multiplied by f_area if area and by f_time if time.
scale(rate, area, time) ==
    [c \in Counts |->
        Times(Times(Quot(rate[c], 1), IF area THEN rate.f_area ELSE Quot(1, 1)),
              IF time THEN rate.f_time ELSE Quot(1, 1))]

\* rates(): `r` is bound only inside the two ifs
r_unbound(scale_area, scale_time) == ~scale_area /\ ~scale_time

\* Lines 109-115.  The default of scale's area flag is not set by this file:
\* the second call, scale(self.rate, time=True), is taken with either.
rates ==
    /\ pc = "done"
    /\ ~rates_ret.called
    /\ \E scale_area, scale_time, area_default \in BOOLEAN :
        rates_ret' =
            [called |-> TRUE, scale_area |-> scale_area, scale_time |-> scale_time,
             raised |-> r_unbound(scale_area, scale_time),
             r |-> IF scale_time THEN scale(self.rate, area_default, TRUE)
                   ELSE IF scale_area THEN scale(self.rate, TRUE, FALSE)
                   ELSE [c \in Counts |-> NaN]]
    /\ UNCHANGED <<pipevars, gal, utilvars>>

\* One survey, then a call of rates().
InitRates ==
    /\ Init
    /\ survey.snr_limit = 5
    /\ opts = [scat |-> FALSE, scin |-> FALSE, rate_limit |-> TRUE]
    /\ rng = Seeded(0)

NextRates ==
    \/ Construct
    \/ RegionFilter
    \/ DmSmear
    \/ Scat
    \/ CalcTs
    \/ CalcWEff
    \/ CalcSPeak
    \/ CalcFluence
    \/ CalcSnr
    \/ Scint
    \/ ThresholdFilter
    \/ RateLimit
    \/ CountDet
    \/ Scaling
    \/ rates

SpecRates == InitRates /\ [][NextRates]_vars

\* ================================================ galacticops.py: NE2001
\* Distances are whole kiloparsecs; a distance in Gpc is a whole number of
\* 1/GpcDen Gpc.  gal.dm_calls holds the last two calls of ne2001_dist_to_dm
\* and gal.smtau_calls the last call of ne2001_get_smtau, each recorded as the
\* arguments it was given, the distances it handed to the NE2001 library (ext)
\* and what it returned; gal.dist is the array the last caller of
\* ne2001_get_smtau or ne2001_scint_time_bw passed, as the call left it, and
\* gal.scint_calls the last two calls of ne2001_scint_time_bw on that array.
MaxArr == 2
MantBits == 5
GpcDen == 10^5
GpcToKpc == 1000000
MaxDist == 100
HalfTurn == 180
PiMilli == 3142
DistsGpc == {1, 10, 11, 50}
DistsKpc == {10, 100, 500}
Sky == {[gl |-> 0, gb |-> 0], [gl |-> 90, gb |-> 30]}

RECURSIVE BitLen(_)
BitLen(x) == IF x = 0 THEN 0 ELSE 1 + BitLen(x \div 2)

\* C.c_float(x): x rounded to the nearest value with MantBits significant
\* bits, ties to the even mantissa.
c_float(x) ==
    LET ulp == IF BitLen(x) > MantBits THEN 2^(BitLen(x) - MantBits) ELSE 1
        q == x \div ulp
        r == x % ulp
    IN  IF 2 * r > ulp \/ (2 * r = ulp /\ q % 2 = 1) THEN (q + 1) * ulp ELSE q * ulp

\* math.radians(deg), in milliradians
radians(deg) == (deg * PiMilli) \div HalfTurn

\* ne2001lib.dm_: the dispersion measure grows with the path length
dm_(dist, gl, gb) == c_float(3 * dist + gl + gb)

\* ne2001lib.dmdsm_: (sm, smtau) along the path; both grow with the path
\* length and a path of length 0 has none.
dmdsm_(gl, gb, dist) ==
    <<c_float(dist * (1 + gl \div 500)), c_float(dist * (2 + gb \div 500))>>

dist_unclamped(dist) == dist
\* if dist > 100: dist = 100
cut(dist) == IF dist > MaxDist THEN MaxDist ELSE dist

\* ne2001_dist_to_dm(dist, gl, gb): the distance given to dm_ and the result
dist_to_dm_arg(dist) == c_float(cut((dist * GpcToKpc) \div GpcDen))
ne2001_dist_to_dm(dist, gl, gb) == dm_(dist_to_dm_arg(dist), c_float(gl), c_float(gb))

\* dist[dist > 100] = 100, on the caller's array
cut_array(dist) == [i \in DOMAIN dist |-> IF dist[i] > MaxDist THEN MaxDist ELSE dist[i]]

\* ne2001_get_smtau(dist, gl, gb): <<sms, smtaus>>
ne2001_get_smtau(dist, gl, gb) ==
    LET d == cut_array(dist)
        r == [i \in DOMAIN d |->
                dmdsm_(c_float(radians(gl[i])), c_float(radians(gb[i])), c_float(d[i]))]
    IN  <<[i \in DOMAIN d |-> r[i][1]], [i \in DOMAIN d |-> r[i][2]]>>

LastTwo(calls, c) == IF calls = <<>> THEN <<c>> ELSE <<calls[Len(calls)], c>>

Call_ne2001_dist_to_dm ==
    /\ \E dist \in DistsGpc, dir \in Sky :
        gal' = [gal EXCEPT !.dm_calls = LastTwo(@,
                    [dist |-> dist, gl |-> dir.gl, gb |-> dir.gb,
                     ext |-> dist_to_dm_arg(dist),
                     dm |-> ne2001_dist_to_dm(dist, dir.gl, dir.gb)])]
    /\ UNCHANGED <<pipevars, rates_ret, utilvars>>

Call_ne2001_get_smtau ==
    /\ \E n \in 0..MaxArr :
        \E dist \in [1..n -> DistsKpc], dir \in Sky :
            LET gl == [i \in 1..n |-> dir.gl]
                gb == [i \in 1..n |-> dir.gb]
            IN  gal' = [gal EXCEPT
                    !.smtau_calls = <<[dist |-> dist, gl |-> gl, gb |-> gb,
                                       ext |-> [i \in 1..n |-> c_float(cut_array(dist)[i])],
                                       smtau |-> ne2001_get_smtau(dist, gl, gb)]>>,
                    !.dist = cut_array(dist)]
    /\ UNCHANGED <<pipevars, rates_ret, utilvars>>

InitGal ==
    /\ Init
    /\ orig = CosmicFrbs(<<>>)
    /\ survey.snr_limit = 5
    /\ opts = [scat |-> FALSE, scin |-> FALSE, rate_limit |-> FALSE]
    /\ rng = Seeded(0)

NextGal ==
    \/ Call_ne2001_dist_to_dm
    \/ Call_ne2001_get_smtau

SpecGal == InitGal /\ [][NextGal]_vars

\* ------------------------------------------- ne2001_scint_time_bw
\* The caller's distances are whole Gpc, the frequency a whole GHz; a
\* fractional power is rounded down to a whole number.
DistsWholeGpc == {0, 1, 2}
FreqsMHz == {1000, 2000}
MHzPerGHz == 1000

RECURSIVE Root5From(_, _)
Root5From(y, r) == IF (r + 1)^5 > y THEN r ELSE Root5From(y, r + 1)
Root5(y) == Root5From(y, 0)
pow_0_6(x) == Root5(x^3)
pow_1_2(x) == x * Root5(x)
pow_4_4(x) == x^4 * Root5(x^2)

\* a[mask] = value, value a scalar
assign_scalar(a, mask, value) == [i \in DOMAIN a |-> IF mask[i] THEN value ELSE a[i]]

\* a[mask] = values, values an array: numpy takes them in order when there are
\* as many as the mask selects, repeats a single one, and otherwise raises
\* ValueError.
assign_array(a, mask, values) ==
    LET k == count_nonzero(mask)
        rank(i) == count_nonzero(SubSeq(mask, 1, i))
    IN  IF Len(values) = k
        THEN [raised |-> FALSE,
              a |-> [i \in DOMAIN a |-> IF mask[i] THEN values[rank(i)] ELSE a[i]]]
        ELSE IF Len(values) = 1
        THEN [raised |-> FALSE,
              a |-> [i \in DOMAIN a |-> IF mask[i] THEN values[1] ELSE a[i]]]
        ELSE [raised |-> TRUE, a |-> a]

\* 3.3 * (freq/1e3)**1.2 * smtau**(-0.6), one element
scint_time_of(freq, smtau) ==
    IF smtau > 0 THEN Quot(33 * pow_1_2(freq \div MHzPerGHz), 10 * pow_0_6(smtau))
    ELSE IF smtau = 0 THEN Inf ELSE NaN

\* 223. * (freq/1e3)**4.4 * sm**(-1.2) / dist, one element
scint_bw_of(freq, sm, dist) ==
    IF sm < 0 THEN NaN
    ELSE IF sm = 0 \/ dist = 0 THEN Inf
    ELSE Quot(223 * pow_4_4(freq \div MHzPerGHz), pow_1_2(sm) * dist)

\* ne2001_scint_time_bw(dist, gl, gb, freq): what it leaves in the caller's
\* array, whether it raised, and what it returned.
ne2001_scint_time_bw(dist, gl, gb, freq) ==
    LET kpc == [i \in DOMAIN dist |-> dist[i] * GpcToKpc]
        left == cut_array(kpc)
        sm == ne2001_get_smtau(kpc, gl, gb)[1]
        smtau == ne2001_get_smtau(kpc, gl, gb)[2]
        ones == [i \in DOMAIN dist |-> Quot(1, 1)]
        t1 == assign_scalar(ones, [i \in DOMAIN dist |-> smtau[i] <= 0], NaN)
        t2 == assign_array(t1, [i \in DOMAIN dist |-> smtau[i] > 0],
                           [i \in DOMAIN dist |-> scint_time_of(freq, smtau[i])])
        b1 == assign_scalar(ones, [i \in DOMAIN dist |-> sm[i] <= 0], NaN)
        b2 == assign_array(b1, [i \in DOMAIN dist |-> sm[i] > 0],
                           [i \in DOMAIN dist |-> scint_bw_of(freq, sm[i], left[i])])
    IN  [left |-> left, sm |-> sm, smtau |-> smtau,
         raised |-> t2.raised \/ b2.raised,
         scint_time |-> IF t2.raised \/ b2.raised THEN <<>> ELSE t2.a,
         scint_bw |-> IF t2.raised \/ b2.raised THEN <<>> ELSE b2.a]

ScintCall(dist, gl, gb, freq) ==
    [dist |-> dist, gl |-> gl, gb |-> gb, freq |-> freq,
     ret |-> ne2001_scint_time_bw(dist, gl, gb, freq)]

\* A caller builds an array of distances and calls the function on it.
Call_ne2001_scint_time_bw ==
    /\ \E n \in 0..MaxArr :
        \E dist \in [1..n -> DistsWholeGpc], dir \in [1..n -> Sky], freq \in FreqsMHz :
            LET c == ScintCall(dist, [i \in 1..n |-> dir[i].gl],
                               [i \in 1..n |-> dir[i].gb], freq)
            IN  gal' = [gal EXCEPT !.scint_calls = <<c>>, !.dist = c.ret.left]
    /\ UNCHANGED <<pipevars, rates_ret, utilvars>>

\* The caller calls it once more with the same array object.
Recall_ne2001_scint_time_bw ==
    /\ gal.scint_calls # <<>>
    /\ LET last == gal.scint_calls[Len(gal.scint_calls)]
           c == ScintCall(gal.dist, last.gl, last.gb, last.freq)
       IN  gal' = [gal EXCEPT !.scint_calls = LastTwo(@, c), !.dist = c.ret.left]
    /\ UNCHANGED <<pipevars, rates_ret, utilvars>>

NextScint ==
    \/ Call_ne2001_scint_time_bw
    \/ Recall_ne2001_scint_time_bw

SpecScint == InitGal /\ [][NextScint]_vars

\* ============================================ galacticops.py: Redshift
\* Reals are whole thousandths (Milli per 1.0); H_0 is in hundredths of
\* km/s/Mpc and distances returned are whole Mpc (thousandths of a Gpc).
Milli == 1000
NSteps == 4                \* steps of the integration (n = 1000 in dist_co)
MaxMethodCalls == 4        \* method calls made on one object
LightSpeed == 299792       \* self.c, km/s
RadiationDensity == 4165   \* 0.4165, in ten-thousandths
FourPiMilli == 12566
ZReds == {0, 1, 3}
Cosmologies ==
    {[H_0 |-> 6774, W_m |-> 309, W_v |-> 691],
     [H_0 |-> 6774, W_m |-> 300, W_v |-> 0],
     [H_0 |-> 6774, W_m |-> 1000, W_v |-> 1000]}
Methods == {"dist_co", "dist_lum", "vol_co"}

Unset == [set |-> FALSE, v |-> 0]
Set(v) == [set |-> TRUE, v |-> v]
Abs(x) == IF x < 0 THEN -x ELSE x

\* The whole part of the square root of v, found bit by bit from the top.
RECURSIVE SqrtBits(_, _, _)
SqrtBits(v, r, bit) ==
    IF bit = 0 THEN r
    ELSE IF r + bit <= 46340 /\ (r + bit) * (r + bit) <= v
         THEN SqrtBits(v, r + bit, bit \div 2)
         ELSE SqrtBits(v, r, bit \div 2)
isqrt(v) == SqrtBits(v, 0, 32768)
\* np.sqrt of a real in thousandths
sqrt(x) == isqrt(x * Milli)

\* np.exp(x), x >= 0: the series 1 + x + x^2/2! + ...
RECURSIVE ExpSeries(_, _, _)
ExpSeries(x, term, k) ==
    IF term = 0 THEN 0 ELSE term + ExpSeries(x, ((term * x) \div Milli) \div k, k + 1)
exp(x) == IF x >= 0 THEN ExpSeries(x, Milli, 1) ELSE (Milli * Milli) \div ExpSeries(-x, Milli, 1)

\* np.sin(x), x >= 0: the series x - x^3/3! + ...
RECURSIVE SinSeries(_, _, _)
SinSeries(x, term, k) ==
    IF term = 0 THEN 0
    ELSE term - SinSeries(x, ((((term * x) \div Milli) * x) \div Milli) \div ((k + 1) * (k + 2)), k + 2)
sin(x) == SinSeries(x, x, 1)

\* Redshift.__init__ (lines 386-400)
Redshift(z, H_0, W_m, W_v) ==
    LET W_r == (RadiationDensity * 10 * Milli) \div (H_0 * H_0)
    IN  [made |-> TRUE, z |-> z, H_0 |-> H_0, W_m |-> W_m, W_v |-> W_v,
         W_r |-> W_r, W_k |-> Milli - W_m - W_r - W_v,
         dcmr |-> 0, az |-> Milli \div (1 + z),
         dc_mpc |-> Unset, dl_mpc |-> Unset]

\* c/H_0, in Mpc
hubble_dist(o) == (LightSpeed * 100) \div o.H_0

\* The loop of dist_co (lines 406-410): the sum added to dcmr.
RECURSIVE integral_sum(_, _)
integral_sum(o, i) ==
    IF i >= NSteps THEN 0
    ELSE LET a == o.az + ((Milli - o.az) * (2 * i + 1)) \div (2 * NSteps)
             s == o.W_k + (o.W_m * Milli) \div a + (o.W_r * Milli * Milli) \div (a * a)
                  + (o.W_v * a * a) \div (Milli * Milli)
             adot == sqrt(s)
         IN  (Milli * Milli * Milli) \div (a * adot) + integral_sum(o, i + 1)

\* the value the loop of dist_co starts from: self.dcmr as it is
dcmr_start(o) == o.dcmr

\* Redshift.dist_co (lines 402-416): the object afterwards and the value returned
dist_co(o) ==
    LET dcmr == ((Milli - o.az) * (dcmr_start(o) + integral_sum(o, 0))) \div (Milli * NSteps)
        dc_mpc == (hubble_dist(o) * dcmr) \div Milli
    IN  [self |-> [o EXCEPT !.dcmr = dcmr, !.dc_mpc = Set(dc_mpc)], ret |-> dc_mpc]

\* ratio of dist_lum (lines 424-437)
lum_ratio(o) ==
    LET x == (sqrt(Abs(o.W_k)) * o.dcmr) \div Milli
        y == IF o.W_k < 0 THEN -((x * x) \div Milli) ELSE (x * x) \div Milli
    IN  IF x > 100
        THEN (IF o.W_k > 0 THEN ((exp(x) - exp(-x)) * Milli) \div (2 * x)
              ELSE (sin(x) * Milli) \div x)
        ELSE Milli + y \div 6 + ((y * y) \div Milli) \div 120

\* Redshift.dist_lum from line 423 on, once self.dcmr is there
lum_of(o1) ==
    LET dcmt == (lum_ratio(o1) * o1.dcmr) \div Milli
        da == (o1.az * dcmt) \div Milli
        dl == (da * Milli * Milli) \div (o1.az * o1.az)
        dl_mpc == (hubble_dist(o1) * dl) \div Milli
    IN  [self |-> [o1 EXCEPT !.dl_mpc = Set(dl_mpc)], ret |-> dl_mpc]

\* Redshift.dist_lum (lines 418-444): dist_co() runs first, once, if
\* self.dc_mpc is None
dist_lum(o) ==
    CHOOSE r \in {lum_of(o1) : o1 \in {IF o.dc_mpc.set THEN o ELSE dist_co(o).self}} : TRUE

\* ratio of vol_co (lines 451-465)
vol_ratio(o) ==
    LET x == (sqrt(Abs(o.W_k)) * o.dcmr) \div Milli
        y == IF o.W_k < 0 THEN -((x * x) \div Milli) ELSE (x * x) \div Milli
        x3 == ((((x * x) \div Milli) * x) \div Milli)
    IN  IF x > 100
        THEN (IF o.W_k > 0
              THEN (3 * Milli * ((exp(2 * x) - exp(-(2 * x))) \div 8 - x \div 2)) \div x3
              ELSE (3 * Milli * (x \div 2 - sin(2 * x) \div 4)) \div x3)
        ELSE Milli + y \div 5 + (2 * ((y * y) \div Milli)) \div 105

\* Redshift.vol_co from line 451 on; the volume in thousandths of Gpc^3
vol_of(o1) ==
    LET d3 == (((o1.dcmr * o1.dcmr) \div Milli) * o1.dcmr) \div Milli
        v_cm == ((vol_ratio(o1) * d3) \div Milli) \div 3
        h == hubble_dist(o1)
        h3 == (((h * h) \div Milli) * h) \div (Milli * Milli)
        v_gpc == (((FourPiMilli * h3) \div Milli) * v_cm)
    IN  [self |-> o1, ret |-> v_gpc]

\* Redshift.vol_co (lines 446-470): dist_lum() runs first, once, if
\* self.dl_mpc is None
vol_co(o) ==
    CHOOSE r \in {vol_of(o1) : o1 \in {IF o.dl_mpc.set THEN o ELSE dist_lum(o).self}} : TRUE

Method(m, o) ==
    CASE m = "dist_co" -> dist_co(o)
      [] m = "dist_lum" -> dist_lum(o)
      [] m = "vol_co" -> vol_co(o)

\* redshift = Redshift(z, H_0, W_m, W_v)
New_Redshift ==
    /\ ~redshift.made
    /\ \E z \in ZReds, c \in Cosmologies :
        redshift' = [obj |-> Redshift(z, c.H_0, c.W_m, c.W_v), made |-> TRUE, calls |-> <<>>]
    /\ UNCHANGED <<pipevars, gal, rates_ret, coords, plotter>>

\* the object and the call log after redshift.<m>()
called(m) ==
    CHOOSE next \in {[redshift EXCEPT !.obj = r.self,
                                      !.calls = Append(@, [method |-> m, ret |-> r.ret])] :
                     r \in {Method(m, redshift.obj)}} : TRUE

\* redshift.dist_co()
Call_dist_co ==
    /\ redshift.made
    /\ Len(redshift.calls) < MaxMethodCalls
    /\ redshift' = called("dist_co")
    /\ UNCHANGED <<pipevars, gal, rates_ret, coords, plotter>>

\* redshift.dist_lum()
Call_dist_lum ==
    /\ redshift.made
    /\ Len(redshift.calls) < MaxMethodCalls
    /\ redshift' = called("dist_lum")
    /\ UNCHANGED <<pipevars, gal, rates_ret, coords, plotter>>

\* redshift.vol_co()
Call_vol_co ==
    /\ redshift.made
    /\ Len(redshift.calls) < MaxMethodCalls
    /\ redshift' = called("vol_co")
    /\ UNCHANGED <<pipevars, gal, rates_ret, coords, plotter>>

NextRedshift ==
    \/ New_Redshift
    \/ Call_dist_co
    \/ Call_dist_lum
    \/ Call_vol_co

SpecRedshift == InitGal /\ [][NextRedshift]_vars

\* ========================= galacticops.py: lb_to_radec and radec_to_lb
\* Angles in degrees are whole hundredths of a degree; radians and the
\* values of sin and cos are whole ten-thousandths.
Myriad == 10000
PiMyriad == 31416
FullTurn == 36000
a_ngp == 19411             \* 12.9406333 * 15. degrees
d_ngp == 2713              \* 27.1282500 degrees
l_ngp == 12393             \* 123.9320000 degrees
GlStep == 1500
GbStep == 3000
Tolerance == 10            \* a tenth of a degree
\* The directions converted: a grid over the sky away from the galactic
\* poles, and the direction opposite to (a_ngp, d_ngp).
Directions ==
    {[l |-> i * GlStep, b |-> j * GbStep] : i \in 0..(FullTurn \div GlStep - 1), j \in -2..2}
        \cup {[l |-> l_ngp + FullTurn \div 2, b |-> -d_ngp]}
\* What the caller passes: Python floats, or numpy arrays holding one direction
Shapes == {"float", "array"}

\* a / b to the nearest whole number, b > 0
nearest(a, b) == (a + b \div 2) \div b
\* a * b of two values in ten-thousandths
times(a, b) == nearest(a * b, Myriad)

\* np.radians, math.radians
to_radians(deg) == nearest(deg * PiMyriad, FullTurn \div 2)
\* np.degrees, math.degrees
to_degrees(rad) == nearest(rad * (FullTurn \div 2), PiMyriad)

\* x - x^3/3! + x^5/5! - ..., 0 <= x <= pi/2
RECURSIVE sin_series(_, _, _)
sin_series(x, term, k) ==
    IF term = 0 THEN 0
    ELSE term - sin_series(x, nearest(times(times(term, x), x), (k + 1) * (k + 2)), k + 2)

\* np.sin, math.sin
sine(x) ==
    LET t == x % (2 * PiMyriad)
        half == IF t >= PiMyriad THEN t - PiMyriad ELSE t
        acute == IF 2 * half > PiMyriad THEN PiMyriad - half ELSE half
        s == sin_series(acute, acute, 1)
    IN  IF t >= PiMyriad THEN -s ELSE s

\* np.cos, math.cos
cosine(x) == sine(x + PiMyriad \div 2)

RECURSIVE arcsin_between(_, _, _)
arcsin_between(v, lo, hi) ==
    IF lo >= hi THEN lo
    ELSE LET mid == (lo + hi + 1) \div 2
         IN  IF sine(mid) <= v THEN arcsin_between(v, mid, hi) ELSE arcsin_between(v, lo, mid - 1)

\* np.arcsin, math.asin of v in [-1, 1]: the angle in [-pi/2, pi/2]
arcsin(v) ==
    IF v >= Myriad THEN PiMyriad \div 2
    ELSE IF v <= -Myriad THEN -(PiMyriad \div 2)
    ELSE IF v >= 0 THEN arcsin_between(v, 0, PiMyriad \div 2)
    ELSE -arcsin_between(-v, 0, PiMyriad \div 2)

\* np.arctan2, math.atan2: the angle of (x, y) in [-pi, pi]
arctan2(y, x) ==
    LET r == isqrt(x * x + y * y)
    IN  IF r = 0 THEN 0
        ELSE IF Abs(y) <= Abs(x)
        THEN LET phi == arcsin(nearest(y * Myriad, r))
             IN  IF x > 0 THEN phi
                 ELSE IF y >= 0 THEN PiMyriad - phi ELSE -PiMyriad - phi
        ELSE LET psi == arcsin(nearest(x * Myriad, r))
             IN  IF y > 0 THEN PiMyriad \div 2 - psi ELSE psi - PiMyriad \div 2

\* lb_to_radec(l, b) (lines 86-110).  The item assignment of line 108
\* needs an array: a numpy float has none, and the call raises TypeError.
\* np.arcsin of a value outside [-1, 1] is nan, with a warning only.
lb_to_radec(l, b, shape) ==
    LET gl == to_radians(l)
        gb == to_radians(b)
        sd_ngp == sine(to_radians(d_ngp))
        cd_ngp == cosine(to_radians(d_ngp))
        sb == sine(gb)
        cb == cosine(gb)
        y == times(cb, sine(to_radians(l_ngp) - gl))
        x == times(cd_ngp, sb) - times(times(sd_ngp, cb), cosine(to_radians(l_ngp) - gl))
        ra == to_degrees(arctan2(y, x) + to_radians(a_ngp)) % FullTurn
        arg == times(sd_ngp, sb) + times(times(cd_ngp, cb), cosine(to_radians(l_ngp) - gl))
        dec == to_degrees(arcsin(arg)) % FullTurn
    IN  [raised |-> IF shape = "float" THEN "TypeError"
                    ELSE IF Abs(arg) > Myriad THEN "nan" ELSE "no",
         ra |-> ra,
         dec |-> IF dec > 3 * (FullTurn \div 4) THEN -(FullTurn - dec) ELSE dec]

\* radec_to_lb(ra, dec, frac=True) (lines 138-167); math.asin of a value
\* outside [-1, 1] raises ValueError.
radec_to_lb(ra, dec) ==
    LET a == to_radians(ra)
        d == to_radians(dec)
        sd_ngp == sine(to_radians(d_ngp))
        cd_ngp == cosine(to_radians(d_ngp))
        sd == sine(d)
        cd == cosine(d)
        y == times(cd, sine(a - to_radians(a_ngp)))
        x == times(cd_ngp, sd) - times(times(sd_ngp, cd), cosine(a - to_radians(a_ngp)))
        gl == to_degrees(-arctan2(y, x) + to_radians(l_ngp)) % FullTurn
        arg == times(sd_ngp, sd) + times(times(cd_ngp, cd), cosine(a - to_radians(a_ngp)))
        gb == to_degrees(arcsin(arg)) % FullTurn
    IN  [raised |-> IF Abs(arg) > Myriad THEN "ValueError" ELSE "no",
         gl |-> IF gl > FullTurn \div 2 THEN -(FullTurn - gl) ELSE gl,
         gb |-> IF gb > 3 * (FullTurn \div 4) THEN -(FullTurn - gb) ELSE gb]

\* ra, dec = lb_to_radec(l, b)
Call_lb_to_radec ==
    /\ coords.at = "none"
    /\ \E p \in Directions, shape \in Shapes :
        LET r == lb_to_radec(p.l, p.b, shape)
        IN  coords' = [at |-> "radec", l |-> p.l, b |-> p.b, shape |-> shape,
                       raised |-> r.raised, ra |-> r.ra, dec |-> r.dec]
    /\ UNCHANGED <<pipevars, gal, rates_ret, redshift, plotter>>

\* gl, gb = radec_to_lb(ra, dec, frac=True), of what lb_to_radec returned
Call_radec_to_lb ==
    /\ coords.at = "radec"
    /\ coords.raised = "no"
    /\ LET r == radec_to_lb(coords.ra, coords.dec)
       IN  coords' = [at |-> "lb", l |-> coords.l, b |-> coords.b, shape |-> coords.shape,
                      raised |-> r.raised, ra |-> coords.ra, dec |-> coords.dec,
                      gl |-> r.gl, gb |-> r.gb]
    /\ UNCHANGED <<pipevars, gal, rates_ret, redshift, plotter>>

NextCoords ==
    \/ Call_lb_to_radec
    \/ Call_radec_to_lb

SpecCoords == InitGal /\ [][NextCoords]_vars

\* ======================================================== do_plot.py
\* plotter.default_files is the list object made once, when `def plot` is
\* executed, and bound to `files` in every call that does not pass one;
\* plotter.calls holds the last call: its arguments and the command it built.
MaxPops == 2
MaxPlotFiles == 3
PopArgs == {[kind |-> "str", name |-> "cosmic"], [kind |-> "Population", name |-> "Apertif"]}

\* str.lower()
lower(name) == IF name = "Apertif" THEN "apertif" ELSE name

\* os.path.join(paths.populations(), name + '.p')
population_file(pop) ==
    [dir |-> "populations",
     file |-> IF pop.kind = "str" THEN pop.name ELSE lower(pop.name),
     ext |-> ".p"]

RECURSIVE appended(_, _)
\* for pop in pops: ... files.append(out)
appended(files, pops) ==
    IF pops = <<>> THEN files
    ELSE appended(Append(files, population_file(Head(pops))), Tail(pops))

\* the command up to the population files
command_head(show, no_browser) ==
    <<"nice", "-n", "19">>
    \o (IF show THEN <<"bokeh", "serve">> \o (IF no_browser THEN <<>> ELSE <<"--show">>)
        ELSE <<"python3">>)
    \o <<"plot.py", "--args", "-frbcat", "True">>

\* plot(*pops, show=show, no_browser=no_browser), files not passed
plot ==
    /\ \E n \in 0..MaxPops :
        \E pops \in [1..n -> PopArgs], show, no_browser \in BOOLEAN :
            LET files == appended(plotter.default_files, pops)
            IN  /\ Len(files) <= MaxPlotFiles
                /\ plotter' =
                    [default_files |-> files,
                     calls |-> <<[pops |-> pops,
                                  saved |-> {pops[i].name : i \in {j \in 1..n : pops[j].kind = "Population"}},
                                  command |-> [head |-> command_head(show, no_browser),
                                               files |-> files]]>>]
    /\ UNCHANGED <<pipevars, gal, rates_ret, coords, redshift>>

NextPlot == plot

SpecPlot == InitGal /\ [][NextPlot]_vars

\* ================================================================ claims
\* Helpers of the statements below.
N == Len(orig.gl.v)

RECURSIVE IndicesOf(_, _)
\* The members of S within 1..n, in increasing order.
IndicesOf(S, n) ==
    IF n = 0 THEN <<>>
    ELSE IndicesOf(S, n - 1) \o (IF n \in S THEN <<n>> ELSE <<>>)

\* arr at the positions idx, in that order.
Rows(arr, idx) == [k \in 1..Len(idx) |-> arr[idx[k]]]

AfterRegion ==
    {"t_dm", "t_scat", "T_sys", "w_eff", "s_peak", "fluence", "snr", "scint",
     "threshold", "rate_limit", "det", "scaling", "done"}
Enrichment == {"t_dm", "t_scat", "T_sys", "w_eff", "s_peak", "fluence", "snr", "scint"}
AfterThreshold == {"rate_limit", "det", "scaling", "done"}
AfterRateLimit == {"det", "scaling", "done"}

\* Input positions of the sources each filter let through, read off the masks
\* and draws the run computed.
RegionPass == IndicesOf({i \in 1..N : locals.region_mask[i]}, N)
ThresholdPass ==
    Rows(RegionPass,
         IndicesOf({j \in 1..Len(locals.snr_seen) :
                        ~(locals.snr_seen[j] < survey.snr_limit)},
                   Len(locals.snr_seen)))
RatePass ==
    Rows(ThresholdPass,
         IndicesOf({j \in 1..Len(locals.rate_u) :
                        locals.rate_u[j] * (1 + orig.z.v[ThresholdPass[j]]) <= UDen},
                   Len(locals.rate_u)))

\* The input rows idx, for the attributes the input carries.
IsRows(pop, idx) == \A f \in InputFields : pop[f].v = Rows(orig[f].v, idx)

\* C1 (conservation): when __init__ has completed, the four counts of the rate
\* record add up to the size of the input population, for every population and
\* every combination of scat, scin and rate_limit.
C1_Conservation ==
    pc = "done" =>
        self.rate.det + self.rate.out + self.rate.faint + self.rate.late = N

\* A completed run of a population of at least two sources, some rejected as
\* too faint and some as too late.
C1_Witness ==
    /\ pc = "done"
    /\ N >= 2
    /\ self.rate.faint >= 1
    /\ self.rate.late >= 1

\* C2 (input not mutated): in every state of a run, finished, failed or under
\* way, the arrays of cosmic_pop.frbs are those the caller passed in.
C2_InputUnchanged == heap[cosmic_pop.frbs] = orig

\* A finished run whose own copy was masked and enriched.
C2_Witness ==
    /\ pc = "done"
    /\ Len(frbs.gl.v) < N
    /\ frbs.snr.isarr
    /\ self.frbs # cosmic_pop.frbs

\* The documented stages: 1 region filter, 2 signal-chain enrichment,
\* 3 threshold filter, 4 rate-limit filter; 0 before them and 5 after.
Phase(p) ==
    CASE p = "construct" -> 0
      [] p = "region" -> 1
      [] p \in Enrichment -> 2
      [] p = "threshold" -> 3
      [] p = "rate_limit" -> 4
      [] OTHER -> 5

OutSet == {i \in 1..N : ~locals.region_mask[i]}
FaintSet == {RegionPass[j] : j \in {k \in 1..Len(locals.snr_mask) : ~locals.snr_mask[k]}}
LateSet == {ThresholdPass[j] : j \in {k \in 1..Len(locals.rate_mask) : ~locals.rate_mask[k]}}

C3_Counted ==
    /\ pc \in AfterThreshold => Len(locals.snr_mask) = N - self.rate.out
    /\ pc \in AfterRateLimit /\ opts.rate_limit =>
           Len(locals.rate_mask) = N - self.rate.out - self.rate.faint
    /\ pc = "done" =>
        /\ self.rate.out = Cardinality(OutSet)
        /\ self.rate.faint = Cardinality(FaintSet)
        /\ self.rate.late = Cardinality(LateSet)
        /\ self.rate.det = Cardinality((1..N) \ (OutSet \cup FaintSet \cup LateSet))
        /\ OutSet \cap FaintSet = {}
        /\ OutSet \cap LateSet = {}
        /\ FaintSet \cap LateSet = {}

C3_Step ==
    pc' # pc =>
        \/ pc' = "failed"
        \/ pc = "done" /\ pc' = "construct" /\ run' = run + 1
        \/ Phase(pc') = Phase(pc) + 1
        \/ Phase(pc') = Phase(pc) /\ Phase(pc) \in {2, 5}

\* C3 (stage order): within one call the statements run in the order region
\* filter, enrichment, threshold filter, rate-limit filter, each filter once
\* and never an earlier stage after a later one; the threshold mask covers
\* exactly the sources the region filter kept, the rate-limit mask exactly
\* those the threshold filter kept, and at the end every source is counted in
\* exactly one of out, faint, late and det.
C3_StagesInOrder == [](C3_Counted) /\ [][C3_Step]_vars

\* A completed run in which each of the three filters rejected or kept
\* something: two sources, one out of region, with the rate limit enabled.
C3_Witness ==
    /\ pc = "done"
    /\ opts.rate_limit
    /\ self.rate.out = 1
    /\ Len(locals.snr_mask) = 1
    /\ Len(locals.rate_mask) = 1

\* C4 (threshold filter): of the sources the region filter kept, exactly those
\* whose SNR is below survey.snr_limit are removed, rate.faint is their number
\* and every source left has snr >= survey.snr_limit; one in-region source of
\* SNR 5 under the limit 10 ends with det = 0, faint = 1, out = 0, late = 0.
C4_Threshold ==
    /\ pc = "rate_limit" =>
        /\ IsRows(frbs, ThresholdPass)
        /\ frbs.snr.v = SelectSeq(locals.snr_seen, LAMBDA x : ~(x < survey.snr_limit))
    /\ pc \in AfterThreshold =>
        /\ self.rate.faint =
               Cardinality({j \in 1..Len(locals.snr_seen) :
                                locals.snr_seen[j] < survey.snr_limit})
        /\ \A i \in 1..Len(frbs.snr.v) : frbs.snr.v[i] >= survey.snr_limit
    /\ (/\ pc = "done"
        /\ N = 1
        /\ locals.region_mask = <<TRUE>>
        /\ locals.snr_seen = <<5>>
        /\ survey.snr_limit = 10) =>
            /\ self.rate.det = 0
            /\ self.rate.faint = 1
            /\ self.rate.out = 0
            /\ self.rate.late = 0

\* The scenario: a completed run of one in-region source of SNR 5 under limit 10.
C4_Witness ==
    /\ pc = "done"
    /\ N = 1
    /\ locals.region_mask = <<TRUE>>
    /\ locals.snr_seen = <<5>>
    /\ survey.snr_limit = 10
    /\ self.rate.faint = 1

\* C5 (monotonicity): for the same population, options and seed, the second
\* run, under a threshold at least as high, never detects more than the
\* first, rate limit enabled or not.
C5_MonotoneDet ==
    run = 2 /\ pc = "done" => self.rate.det <= first.rate.det

\* What does hold of the two runs: for the same population, options and seed,
\* a run under a threshold at least as high never lets more sources pass the
\* threshold filter (det + late), and never detects more when the rate limit
\* is disabled.
C5_MonotonePassed ==
    run = 2 /\ pc = "done" =>
        /\ self.rate.det + self.rate.late <= first.rate.det + first.rate.late
        /\ ~opts.rate_limit => self.rate.det <= first.rate.det

\* Two completed runs, the second under a higher threshold that costs a detection.
C5_Witness ==
    /\ run = 2
    /\ pc = "done"
    /\ survey.snr_limit > first.snr_limit
    /\ ~opts.rate_limit
    /\ self.rate.det < first.rate.det
    /\ self.rate.det >= 1

C7_EmptyNoFault ==
    N = 0 =>
        /\ pc # "failed"
        /\ pc = "done" =>
            /\ Len(frbs.snr.v) = 0
            /\ self.rate.out = 0
            /\ self.rate.faint = 0
            /\ self.rate.late = 0
            /\ self.rate.det = 0

\* C8 (rate-limit filter): with rate_limit enabled every source that passed
\* the threshold filter has a draw of its own, consecutive outputs of the
\* generator, and is kept exactly when u <= 1/(1+z); no source at z = 0 is
\* rejected and rate.late is the number removed.  With rate_limit disabled no
\* source is removed, rate.late is 0 and rate.det is the number that passed
\* the threshold filter.
C8_RateLimit ==
    pc \in AfterRateLimit =>
        IF opts.rate_limit
        THEN /\ Len(locals.rate_u) = Len(ThresholdPass)
             /\ \A j \in 1..Len(locals.rate_u) :
                    /\ locals.rate_u[j] \in 0..(UDen - 1)
                    /\ locals.rate_u[j] =
                           Stream(rng.seed, rng.pos - Len(locals.rate_u) + j)
             /\ IsRows(frbs, RatePass)
             /\ self.rate.late = Len(ThresholdPass) - Len(RatePass)
             /\ \A j \in 1..Len(ThresholdPass) :
                    orig.z.v[ThresholdPass[j]] = 0 =>
                        \E k \in 1..Len(RatePass) : RatePass[k] = ThresholdPass[j]
        ELSE /\ IsRows(frbs, ThresholdPass)
             /\ self.rate.late = 0
             /\ pc \in {"scaling", "done"} => self.rate.det = Len(ThresholdPass)

\* A completed rate-limited run that rejected one source and kept another whose
\* draw was exactly 1/(1+z).
C8_Witness ==
    /\ pc = "done"
    /\ opts.rate_limit
    /\ self.rate.late >= 1
    /\ \E j \in 1..Len(locals.rate_u) :
           /\ orig.z.v[ThresholdPass[j]] > 0
           /\ locals.rate_u[j] * (1 + orig.z.v[ThresholdPass[j]]) = UDen

\* The arrays of a container all have one length.
EqualLength(pop) ==
    \A f, g \in FrbsFields :
        pop[f].isarr /\ pop[g].isarr => Len(pop[f].v) = Len(pop[g].v)

\* C9 (equal lengths): in every state of a run all per-source arrays of the
\* run's population have the same length, no mask fails on an array of another
\* length, and from the region filter to the threshold filter the population
\* keeps the N - out sources the region filter left.
C9_EqualLength ==
    /\ EqualLength(frbs)
    /\ pc = "failed" => self.rate.det + self.rate.late + self.rate.faint = 0
    /\ pc \in Enrichment \cup {"threshold"} =>
           \A f \in InputFields : Len(frbs[f].v) = N - self.rate.out
    /\ pc = "threshold" =>
           \A f \in SurveyFields : f # "t_scat" \/ opts.scat => frbs[f].isarr

\* After all three masks of a run with scattering: every attribute an array,
\* sources rejected by two of the filters and a source left.
C9_Witness ==
    /\ pc = "det"
    /\ opts.scat
    /\ opts.rate_limit
    /\ self.rate.out >= 1
    /\ \A f \in FrbsFields : frbs[f].isarr /\ Len(frbs[f].v) = 1
    /\ Len(locals.rate_mask) = 1

\* C10: ne2001_dist_to_dm hands min(distance, 100 kpc) to the electron-density
\* model: for one direction (gl, gb) every distance above 100 kpc returns the
\* dispersion measure that 100 kpc returns, and neither ne2001_dist_to_dm nor
\* ne2001_get_smtau hands the library a distance above 100 kpc.
Kpc(dist) == (dist * GpcToKpc) \div GpcDen
C10_DistanceClamp ==
    /\ \A i \in DOMAIN gal.dm_calls : gal.dm_calls[i].ext <= MaxDist
    /\ \A i \in DOMAIN gal.smtau_calls :
        \A k \in DOMAIN gal.smtau_calls[i].ext : gal.smtau_calls[i].ext[k] <= MaxDist
    /\ \A i, j \in DOMAIN gal.dm_calls :
        LET a == gal.dm_calls[i]
            b == gal.dm_calls[j]
        IN  (/\ a.gl = b.gl /\ a.gb = b.gb
             /\ Kpc(a.dist) > MaxDist /\ Kpc(b.dist) >= MaxDist)
            => a.dm = b.dm
C10_Witness ==
    /\ \E i, j \in DOMAIN gal.dm_calls :
        LET a == gal.dm_calls[i]
            b == gal.dm_calls[j]
        IN  /\ a.gl = b.gl /\ a.gb = b.gb
            /\ Kpc(a.dist) = 500 /\ Kpc(b.dist) = MaxDist
            /\ a.dm = b.dm
    /\ \E i \in DOMAIN gal.smtau_calls :
        LET c == gal.smtau_calls[i]
        IN  \E k \in DOMAIN c.dist : c.dist[k] > MaxDist /\ c.ext[k] = MaxDist

\* C11: ne2001_scint_time_bw never raises, and returns for every source of
\* the array not-a-number where the scattering measure is not positive and
\* the source's own formula value where it is positive, arrays that mix the
\* two included.
C11_ScintPerSource ==
    \A k \in DOMAIN gal.scint_calls :
        LET c == gal.scint_calls[k]
            r == c.ret
        IN  /\ ~r.raised
            /\ Len(r.scint_time) = Len(c.dist)
            /\ Len(r.scint_bw) = Len(c.dist)
            /\ \A i \in DOMAIN c.dist :
                /\ r.scint_time[i] =
                       IF r.smtau[i] <= 0 THEN NaN ELSE scint_time_of(c.freq, r.smtau[i])
                /\ r.scint_bw[i] =
                       IF r.sm[i] <= 0 THEN NaN
                       ELSE scint_bw_of(c.freq, r.sm[i], r.left[i])

\* C15: ne2001_scint_time_bw and the ne2001_get_smtau it calls leave the
\* caller's dist array as it was, and two calls with the same array object
\* return the same.
C15_ArgumentsUntouched ==
    /\ \A k \in DOMAIN gal.scint_calls :
        gal.scint_calls[k].ret.left = gal.scint_calls[k].dist
    /\ Len(gal.scint_calls) = 2 =>
        LET a == gal.scint_calls[1].ret
            b == gal.scint_calls[2].ret
        IN  /\ a.raised = b.raised
            /\ a.scint_time = b.scint_time
            /\ a.scint_bw = b.scint_bw

\* C14: a run on a non-empty population whose sources are all outside the
\* survey region raises nothing, passes every stage and ends with out = N,
\* faint = late = det = 0 and the scaling factors f_area and f_time defined.
C14_AllRejectedNoFault ==
    (N > 0 /\ \A i \in 1..N : orig.gl.v[i] > survey.gl_max) =>
        /\ pc # "failed"
        /\ pc = "done" =>
            /\ self.rate.out = N
            /\ self.rate.faint = 0
            /\ self.rate.late = 0
            /\ self.rate.det = 0
            /\ self.rate.f_area.kind = "num"
            /\ self.rate.f_time.kind = "num"

\* C12: rates(scale_area, scale_time) raises nothing and returns the rate
\* record scaled by the area factor iff scale_area and by the time factor
\* iff scale_time, for all four combinations of the flags.
C12_RatesByFlags ==
    rates_ret.called =>
        /\ ~rates_ret.raised
        /\ rates_ret.r = scale(self.rate, rates_ret.scale_area, rates_ret.scale_time)

\* C17: the command a call of plot(*pops) builds, files not passed, lists the
\* population files of that call's pops, one per pop and in their order, and
\* no file of an earlier call.
C17_OnlyOwnFiles ==
    \A k \in DOMAIN plotter.calls :
        LET c == plotter.calls[k]
        IN  c.command.files = [i \in DOMAIN c.pops |-> population_file(c.pops[i])]

\* C16: on one Redshift object every call of dist_co(), dist_lum() or
\* vol_co() returns what that method returns when it is the first call on a
\* new object of the same redshift and cosmology, whatever calls went before.
C16_OrderIndependent ==
    redshift.made =>
        \A k \in DOMAIN redshift.calls :
            LET c == redshift.calls[k]
                o == redshift.obj
            IN  c.ret = Method(c.method, Redshift(o.z, o.H_0, o.W_m, o.W_v)).ret

\* C13 (round trip): a direction (gl, gb) with gl in [0, 360) and gb away
\* from the galactic poles goes through lb_to_radec with a right ascension
\* in [0, 360) and a declination in [-90, 90], and radec_to_lb of that pair
\* gives (gl, gb) back within the tolerance.
C13_RoundTrip ==
    /\ coords.at \in {"radec", "lb"} =>
        /\ coords.raised = "no"
        /\ 0 <= coords.ra /\ coords.ra < FullTurn
        /\ -(FullTurn \div 4) <= coords.dec /\ coords.dec <= FullTurn \div 4
    /\ coords.at = "lb" =>
        /\ Abs(coords.gl - coords.l) <= Tolerance
        /\ Abs(coords.gb - coords.b) <= Tolerance
====
